---- MODULE Spec2Model ----
(***************************************************************************)
(* Model of CodigoPararelaMain.py: a CSV is read in chunks of CHUNK_SIZE   *)
(* rows, procesar_chunk runs on every chunk in a process pool, pool.map    *)
(* returns the partial results in chunk order and combinar_resultados      *)
(* reduces them to the final dictionary.                                   *)
(*                                                                         *)
(* Values.  A postal code is the sequence of its characters (characters    *)
(* are natural numbers).  A nullable number (NaT, NaN, None) is <<>> when  *)
(* missing and <<v>> when present.  A float that is a quotient of integers *)
(* is the reduced fraction <<p, q>>.  A float rounded to d decimals is the *)
(* integer number of 10^-d units.                                          *)
(***************************************************************************)
EXTENDS Integers, Sequences, FiniteSets, TLC

VARIABLES
    dataset,      \* the rows of the CSV file
    chunk_size,   \* CHUNK_SIZE
    processes,    \* cpu_count()
    pc,           \* position of the main program
    chunks,       \* the chunks the reader yields
    cola,         \* the pool's task queue
    trabajando,   \* the task each worker runs, 0 when idle
    devueltos,    \* the result slot of each task
    llegada,      \* the tasks in the order their results arrived
    resultados,   \* the list pool.map returns
    final         \* the dictionary combinar_resultados returns

vars == <<dataset, chunk_size, processes, pc, chunks, cola, trabajando,
          devueltos, llegada, resultados, final>>

\* ------------------------------------------------------------------ bounds
\* CHUNK_SIZE is 500_000 in the source; the model draws the chunk size from
\* 1..MaxChunkSize so that files of a few rows are read as several chunks.
MaxRegistros == 3
MaxChunkSize == 2
\* cpu_count() is drawn from 1..MaxProcesses
MaxProcesses == 2
MaxRegistrosPool == 3
MaxRegistrosDep == 5
\* ages run from -MaxFuturo (a birth date after this year) to MaxEdad
MaxEdad == 95
MaxFuturo == 2
MaxColaEdad == 1
\* the origin codes of a file start with at most MaxEstratos different characters
MaxEstratos == 40
MaxSobrantes == 2

\* --------------------------------------------------------------- constants
\* the length of the top travel-flow list, [:10000]
TOP_K == 10000
\* datetime.now().year, the same in every worker of a run
AnioActual == 2026

\* ------------------------------------------------------------ basic values
NaN == <<>>
None == "None"
IsNa(e) == e = NaN
Abs(n) == IF n < 0 THEN -n ELSE n
Min(a, b) == IF a < b THEN a ELSE b

RECURSIVE Gcd(_, _)
Gcd(a, b) == IF b = 0 THEN a ELSE Gcd(b, a % b)

\* the float a / b, kept exact
Frac(a, b) == LET g == Gcd(Abs(a), b) IN <<a \div g, b \div g>>

RECURSIVE SumaSeq(_)
SumaSeq(s) == IF s = <<>> THEN 0 ELSE Head(s) + SumaSeq(Tail(s))

\* sum(d.values())
RECURSIVE SumaSobre(_, _)
SumaSobre(d, K) ==
    IF K = {} THEN 0
    ELSE LET k == CHOOSE x \in K : TRUE
         IN d[k] + SumaSobre(d, K \ {k})

SumaValores(d) == SumaSobre(d, DOMAIN d)

Contar(s, P(_)) == Cardinality({i \in DOMAIN s : P(s[i])})

\* alphabetical rank of the species and gender labels
Alfabeto == <<"A", "F", "M">>
Rango(s) == CHOOSE i \in DOMAIN Alfabeto : Alfabeto[i] = s

\* string comparison of two postal codes
RECURSIVE CpMenor(_, _)
CpMenor(a, b) ==
    IF b = <<>> THEN FALSE
    ELSE IF a = <<>> THEN TRUE
    ELSE IF Head(a) # Head(b) THEN Head(a) < Head(b)
    ELSE CpMenor(Tail(a), Tail(b))

\* order of the (CP ORIGEN, CP DESTINO) group keys
ViajeMenor(k1, k2) ==
    \/ CpMenor(k1[1], k2[1])
    \/ k1[1] = k2[1] /\ CpMenor(k1[2], k2[2])

\* order of the (ESPECIE, GENERO) group keys
GrupoMenor(g1, g2) ==
    \/ Rango(g1[1]) < Rango(g2[1])
    \/ g1[1] = g2[1] /\ Rango(g1[2]) < Rango(g2[2])

\* the keys of a groupby, in sorted order
RECURSIVE OrdenarViajes(_)
OrdenarViajes(S) ==
    IF S = {} THEN <<>>
    ELSE LET m == CHOOSE x \in S : \A y \in S \ {x} : ViajeMenor(x, y)
         IN <<m>> \o OrdenarViajes(S \ {m})

RECURSIVE OrdenarGrupos(_)
OrdenarGrupos(S) ==
    IF S = {} THEN <<>>
    ELSE LET m == CHOOSE x \in S : \A y \in S \ {x} : GrupoMenor(x, y)
         IN <<m>> \o OrdenarGrupos(S \ {m})

\* ------------------------------------------------------- record derivation
estrato(r) == Head(r.CP_ORIGEN)

edad(r) ==
    IF r.FECHA_NACIMIENTO = NaN THEN NaN
    ELSE <<AnioActual - r.FECHA_NACIMIENTO[1]>>

\* clasificar_edad with the limit of "18-35" written e < 35
clasificar_edad_sin35(e) ==
    IF IsNa(e) THEN None
    ELSE IF e[1] < 18 THEN "0-17"
    ELSE IF e[1] < 35 THEN "18-35"
    ELSE IF e[1] <= 60 THEN "36-60"
    ELSE "61+"

clasificar_edad(e) ==
    IF IsNa(e) THEN None
    ELSE IF e[1] < 18 THEN "0-17"
    ELSE IF e[1] <= 35 THEN "18-35"
    ELSE IF e[1] <= 60 THEN "36-60"
    ELSE "61+"

\* clasificar_grupo_5anios with the limit of "90+" written edad > 90
clasificar_grupo_5anios_sin90(e) ==
    IF IsNa(e) \/ e[1] < 0 THEN None
    ELSE IF e[1] > 90 THEN "90+"
    ELSE LET base == (e[1] \div 5) * 5
         IN ToString(base) \o "-" \o ToString(base + 4)

clasificar_grupo_5anios(e) ==
    IF IsNa(e) \/ e[1] < 0 THEN None
    ELSE IF e[1] >= 90 THEN "90+"
    ELSE LET base == (e[1] \div 5) * 5
         IN ToString(base) \o "-" \o ToString(base + 4)

\* ------------------------------------------------------------- one chunk
conteo_estrato(chunk) ==
    [k \in {estrato(chunk[i]) : i \in DOMAIN chunk} |->
        Contar(chunk, LAMBDA r : estrato(r) = k)]

\* the non-null ages of a group, in row order
EdadesGrupo(chunk, g) ==
    LET filas == SelectSeq(chunk, LAMBDA r : <<r.ESPECIE, r.GENERO>> = g
                                             /\ ~IsNa(edad(r)))
    IN [i \in DOMAIN filas |-> edad(filas[i])[1]]

Media(xs) == Frac(SumaSeq(xs), Len(xs))

Mediana(xs) ==
    LET s == SortSeq(xs, LAMBDA a, b : a < b)
        n == Len(s)
    IN IF n % 2 = 1 THEN Frac(s[(n + 1) \div 2], 1)
       ELSE Frac(s[n \div 2] + s[n \div 2 + 1], 2)

edad_stats(chunk) ==
    LET grupos == {<<chunk[i].ESPECIE, chunk[i].GENERO>> : i \in DOMAIN chunk}
        conEdad == {g \in grupos : EdadesGrupo(chunk, g) # <<>>}
        orden == OrdenarGrupos(conEdad)
    IN [i \in DOMAIN orden |->
          [ESPECIE |-> orden[i][1], GENERO |-> orden[i][2],
           mean |-> Media(EdadesGrupo(chunk, orden[i])),
           median |-> Mediana(EdadesGrupo(chunk, orden[i]))]]

TramoClave(r) == <<r.ESPECIE, r.GENERO, clasificar_edad(edad(r))>>

tramos(chunk) ==
    LET claves == {TramoClave(chunk[i]) : i \in DOMAIN chunk}
    IN [k \in {c \in claves : c[3] # None} |->
          Contar(chunk, LAMBDA r : TramoClave(r) = k)]

Menor15(e) == ~IsNa(e) /\ e[1] < 15
Mayor64(e) == ~IsNa(e) /\ e[1] > 64
\* the working-age test with the upper limit written edad < 64
EdadTrabajoSin64(e) == ~IsNa(e) /\ e[1] >= 15 /\ e[1] < 64
EdadTrabajo(e) == ~IsNa(e) /\ e[1] >= 15 /\ e[1] <= 64

dependencia(chunk) ==
    LET menores_15 == Contar(chunk, LAMBDA r : Menor15(edad(r)))
        mayores_64 == Contar(chunk, LAMBDA r : Mayor64(edad(r)))
        edad_trabajo == Contar(chunk, LAMBDA r : EdadTrabajo(edad(r)))
    IN <<menores_15 + mayores_64, edad_trabajo>>

ViajeClave(r) == <<r.CP_ORIGEN, r.CP_DESTINO>>

viajes(chunk) ==
    LET orden == OrdenarViajes({ViajeClave(chunk[i]) : i \in DOMAIN chunk})
    IN [i \in DOMAIN orden |->
          <<orden[i][1], orden[i][2],
            Contar(chunk, LAMBDA r : ViajeClave(r) = orden[i])>>]

PiramideClave(r) == <<clasificar_grupo_5anios(edad(r)), r.GENERO>>

piramide(chunk) ==
    LET claves == {PiramideClave(chunk[i]) : i \in DOMAIN chunk}
    IN [k \in {c \in claves : c[1] # None} |->
          Contar(chunk, LAMBDA r : PiramideClave(r) = k)]

procesar_chunk(chunk) ==
    [conteo_estrato |-> conteo_estrato(chunk),
     edad_stats |-> edad_stats(chunk),
     tramos |-> tramos(chunk),
     dependencia |-> dependencia(chunk),
     viajes |-> viajes(chunk),
     piramide |-> piramide(chunk)]

\* ------------------------------------------------------------ the combiner
\* the merge with total[k] = v in place of total[k] += v
SumarDictPisa(total, d) ==
    [k \in DOMAIN total \cup DOMAIN d |->
        IF k \in DOMAIN d THEN d[k] ELSE total[k]]

\* total[k] += v for every item of d, total being a defaultdict(int)
SumarDict(total, d) ==
    [k \in DOMAIN total \cup DOMAIN d |->
        (IF k \in DOMAIN total THEN total[k] ELSE 0)
        + (IF k \in DOMAIN d THEN d[k] ELSE 0)]

\* for ori, dst, count in viajes: viajes_total[(ori, dst)] += count.  The dict
\* keeps its keys in insertion order: a key it holds keeps its place and gains
\* the counts of the list, a new key is appended at its first occurrence.
SumarViajes(total, vs) ==
    LET clave(v) == <<v[1], v[2]>>
        aporte(k) ==
            LET mismos == SelectSeq(vs, LAMBDA v : clave(v) = k)
            IN SumaSeq([i \in DOMAIN mismos |-> mismos[i][3]])
        yaEsta(k) == \E i \in DOMAIN total : total[i][1] = k
        primeros ==
            {i \in DOMAIN vs :
                /\ ~yaEsta(clave(vs[i]))
                /\ \A j \in 1..(i - 1) : clave(vs[j]) # clave(vs[i])}
        nuevos == SelectSeq([i \in DOMAIN vs |-> <<i, vs[i]>>],
                            LAMBDA p : p[1] \in primeros)
    IN [i \in DOMAIN total |-> <<total[i][1], total[i][2] + aporte(total[i][1])>>]
       \o [i \in DOMAIN nuevos |->
               <<clave(nuevos[i][2]), aporte(clave(nuevos[i][2]))>>]

\* the accumulators after the first n partial results
RECURSIVE Acumular(_, _)
Acumular(res, n) ==
    IF n = 0
    THEN [total_estrato |-> <<>>, edad_registros |-> <<>>,
          tramos_total |-> <<>>, dep_numerador |-> 0, dep_denominador |-> 0,
          viajes_total |-> <<>>, piramide_total |-> <<>>]
    ELSE LET a == Acumular(res, n - 1)
             r == res[n]
         IN [total_estrato |-> SumarDict(a.total_estrato, r.conteo_estrato),
             edad_registros |-> a.edad_registros \o r.edad_stats,
             tramos_total |-> SumarDict(a.tramos_total, r.tramos),
             dep_numerador |-> a.dep_numerador + r.dependencia[1],
             dep_denominador |-> a.dep_denominador + r.dependencia[2],
             viajes_total |-> SumarViajes(a.viajes_total, r.viajes),
             piramide_total |-> Append(a.piramide_total, r.piramide)]

\* Series + Series: the indexes are aligned on their union and a key missing
\* from either side gives NaN
SumaSeries(a, b) ==
    [k \in DOMAIN a \cup DOMAIN b |->
        IF k \in DOMAIN a /\ k \in DOMAIN b /\ ~IsNa(a[k])
        THEN <<a[k][1] + b[k]>> ELSE NaN]

\* sum(piramide_total): 0 + s1 + s2 + ...
RECURSIVE SumaPiramides(_, _)
SumaPiramides(ps, n) ==
    IF n = 1 THEN [k \in DOMAIN ps[1] |-> <<0 + ps[1][k]>>]
    ELSE SumaSeries(SumaPiramides(ps, n - 1), ps[n])

RECURSIVE Pow10(_)
Pow10(n) == IF n = 0 THEN 1 ELSE 10 * Pow10(n - 1)

RECURSIVE EsPotenciaDe2(_)
EsPotenciaDe2(n) == n = 1 \/ (n % 2 = 0 /\ EsPotenciaDe2(n \div 2))

\* the quotient cut to ndigits decimals in place of rounded
roundTrunca(a, b, ndigits) == {(Pow10(ndigits) * a) \div b}

\* round(a / b, ndigits) in units of 10^-ndigits.  The quotient is rounded to
\* the nearest unit; a quotient halfway between two units goes to the even one
\* when the double holds it exactly, and otherwise to the side on which the
\* nearest double falls, which is either.
round(a, b, ndigits) ==
    LET x == Pow10(ndigits) * a
        q == x \div b
    IN IF 2 * (x % b) < b THEN {q}
       ELSE IF 2 * (x % b) > b THEN {q + 1}
       ELSE IF EsPotenciaDe2(Frac(a, b)[2])
            THEN {IF q % 2 = 0 THEN q ELSE q + 1}
            ELSE {q, q + 1}

\* the dict comprehension of porcentaje_estrato
porcentaje_estrato(total_estrato) ==
    LET total_poblacion == SumaValores(total_estrato)
        cands(k) == round(total_estrato[k] * 100, total_poblacion, 2)
        dudosos == {k \in DOMAIN total_estrato : Cardinality(cands(k)) = 2}
    IN {[k \in DOMAIN total_estrato |->
            IF k \in dudosos
            THEN (IF k \in U THEN (total_estrato[k] * 10000) \div total_poblacion + 1
                  ELSE (total_estrato[k] * 10000) \div total_poblacion)
            ELSE CHOOSE m \in cands(k) : TRUE] : U \in SUBSET dudosos}

\* sorted(items, key=lambda x: x[1], reverse=True): the sort is stable, so an
\* item comes after the items of greater count and after the items of the same
\* count that precede it in the list
sorted(items) ==
    LET pos(i) ==
            1 + Cardinality({j \in DOMAIN items :
                                \/ items[j][2] > items[i][2]
                                \/ items[j][2] = items[i][2] /\ j < i})
    IN [p \in DOMAIN items |-> items[CHOOSE i \in DOMAIN items : pos(i) = p]]

top_10k(viajes_total) ==
    LET s == sorted(viajes_total) IN SubSeq(s, 1, Min(Len(s), TOP_K))

indice_dependencia(dep_numerador, dep_denominador) ==
    IF dep_denominador > 0
    THEN {<<m>> : m \in round(dep_numerador, dep_denominador, 3)}
    ELSE {NaN}

\* the dictionaries combinar_resultados can return
combinar_resultados(res) ==
    LET a == Acumular(res, Len(res))
    IN {[conteo_estrato |-> a.total_estrato,
         porcentaje_estrato |-> p,
         edad_estadisticas |-> a.edad_registros,
         tramos |-> a.tramos_total,
         indice_dependencia |-> d,
         top_viajes |-> top_10k(a.viajes_total),
         piramide_edades |-> SumaPiramides(a.piramide_total, Len(a.piramide_total))] :
            p \in porcentaje_estrato(a.total_estrato),
            d \in indice_dependencia(a.dep_numerador, a.dep_denominador)}

\* ------------------------------------------------------------- the inputs
Registro(o, d, f, e, g) ==
    [CP_ORIGEN |-> o, CP_DESTINO |-> d, FECHA_NACIMIENTO |-> f,
     ESPECIE |-> e, GENERO |-> g]

\* the birth date that gives the age n this year
Nacido(n) == <<AnioActual - n>>

SeqsHasta(S, n) == UNION {[1..k -> S] : k \in 1..n}

\* rows that differ in origin, gender and age
Registros ==
    {Registro(o, <<7>>, f, "A", g) :
        o \in {<<1, 0>>, <<2, 5>>}, g \in {"F", "M"},
        f \in {NaN, Nacido(10), Nacido(40)}}

\* rows around the limits of the dependency index
RegistrosDep ==
    {Registro(<<1, 0>>, <<7>>, f, "A", "M") :
        f \in {NaN, Nacido(14), Nacido(15), Nacido(64), Nacido(65)}}

\* rows of every age from -MaxFuturo to MaxEdad, and without age
RegistrosEdad ==
    {Registro(<<1, 0>>, <<7>>, f, "A", "M") :
        f \in {NaN} \cup {Nacido(n) : n \in (-MaxFuturo)..MaxEdad}}

\* a row of any age followed by at most MaxColaEdad rows of age 40 or no age
DatasetsEdad ==
    {<<r>> \o c :
        r \in RegistrosEdad,
        c \in {<<>>} \cup SeqsHasta({Registro(<<1, 0>>, <<7>>, f, "A", "M") :
                                        f \in {NaN, Nacido(40)}}, MaxColaEdad)}

\* n + s rows spread in turn over n strata
PorEstratos(n, s) ==
    [i \in 1..(n + s) |->
        Registro(<<((i - 1) % n) + 1>>, <<7>>, Nacido(40), "A", "M")]

\* -------------------------------------------------------------- the program
\* pd.read_csv(..., chunksize=CHUNK_SIZE): consecutive chunks of chunk_size
\* rows, the last one shorter
reader(rows, size) ==
    [i \in 1..((Len(rows) + size - 1) \div size) |->
        SubSeq(rows, (i - 1) * size + 1, Min(i * size, Len(rows)))]

Arranque(filas, sizes, procs) ==
    /\ dataset \in filas
    /\ chunk_size \in sizes
    /\ processes \in procs
    /\ pc = "leer"
    /\ chunks = <<>>
    /\ cola = <<>>
    /\ trabajando = [w \in 1..processes |-> 0]
    /\ devueltos = <<>>
    /\ llegada = <<>>
    /\ resultados = <<>>
    /\ final = <<>>

Init == Arranque(SeqsHasta(Registros, MaxRegistros), 1..MaxChunkSize, {1})

InitPool ==
    Arranque(SeqsHasta(RegistrosDep, MaxRegistrosPool), 1..MaxChunkSize,
             1..MaxProcesses)

InitDep == Arranque(SeqsHasta(RegistrosDep, MaxRegistrosDep), 1..MaxChunkSize, {1})

InitEdad ==
    Arranque(DatasetsEdad, 1..MaxChunkSize, {1})

\* files of many rows are read in chunks of 10 or 20 rows
InitEstratos ==
    Arranque({PorEstratos(n, s) : n \in 1..MaxEstratos, s \in 0..MaxSobrantes},
             {10, 20}, {1})

\* pool.map reads the whole reader and queues one task per chunk
Leer ==
    /\ pc = "leer"
    /\ chunks' = reader(dataset, chunk_size)
    /\ cola' = [i \in 1..Len(chunks') |-> i]
    /\ devueltos' = [i \in 1..Len(chunks') |-> NaN]
    /\ pc' = "map"
    /\ UNCHANGED <<dataset, chunk_size, processes, trabajando, llegada, resultados,
                   final>>

\* an idle worker takes the next task of the queue (the pool hands the tasks
\* out in order; the workers finish them in any order)
Tomar(w) ==
    /\ pc = "map"
    /\ trabajando[w] = 0
    /\ cola # <<>>
    /\ trabajando' = [trabajando EXCEPT ![w] = Head(cola)]
    /\ cola' = Tail(cola)
    /\ UNCHANGED <<dataset, chunk_size, processes, pc, chunks, devueltos,
                   llegada, resultados, final>>

\* a worker returns the result of its task
Terminar(w) ==
    /\ pc = "map"
    /\ trabajando[w] # 0
    /\ devueltos' = [devueltos EXCEPT
                        ![trabajando[w]] = <<procesar_chunk(chunks[trabajando[w]])>>]
    /\ llegada' = Append(llegada, trabajando[w])
    /\ trabajando' = [trabajando EXCEPT ![w] = 0]
    /\ UNCHANGED <<dataset, chunk_size, processes, pc, chunks, cola,
                   resultados, final>>

\* a collection that waits for the first result only
MapListoConUno == \E i \in DOMAIN devueltos : ~IsNa(devueltos[i])

\* pool.map blocks until every task has returned
MapListo == \A i \in DOMAIN devueltos : ~IsNa(devueltos[i])

\* pool.map returns the list of the results, in task order
Recolectar ==
    /\ pc = "map"
    /\ MapListo
    /\ resultados' = LET hechos == SelectSeq(devueltos, LAMBDA d : ~IsNa(d))
                     IN [i \in DOMAIN hechos |-> hechos[i][1]]
    /\ pc' = "combinar"
    /\ UNCHANGED <<dataset, chunk_size, processes, chunks, cola, trabajando,
                   devueltos, llegada, final>>

Combinar ==
    /\ pc = "combinar"
    /\ final' \in combinar_resultados(resultados)
    /\ pc' = "fin"
    /\ UNCHANGED <<dataset, chunk_size, processes, chunks, cola, trabajando,
                   devueltos, llegada, resultados>>

Next ==
    \/ Leer
    \/ \E w \in 1..processes : Tomar(w)
    \/ \E w \in 1..processes : Terminar(w)
    \/ Recolectar
    \/ Combinar

Spec == Init /\ [][Next]_vars
SpecPool == InitPool /\ [][Next]_vars
SpecDep == InitDep /\ [][Next]_vars
SpecEdad == InitEdad /\ [][Next]_vars
SpecEstratos == InitEstratos /\ [][Next]_vars

\* ---------------------------------------------------------------- claims
\* what the claims speak of: the rows of the file, counted directly
Filas(P(_)) == Contar(dataset, P)
EdadEs(r, n) == edad(r) = <<n>>
SinEdad(r) == IsNa(edad(r))
Acum == Acumular(resultados, Len(resultados))
EnteroPasada == procesar_chunk(dataset)
ComoMapa(items) == {items[i] : i \in DOMAIN items}
SumaParciales(campo(_), k) ==
    SumaSeq([i \in DOMAIN resultados |->
                IF k \in DOMAIN campo(resultados[i]) THEN campo(resultados[i])[k]
                ELSE 0])
LaPiramide(r) == r.piramide

\* C1: the merged stratum counts, bracket counts, dependency numerator and
\* denominator and summed travel counts of any split into chunks equal those of
\* one pass over the whole dataset, and rows without age are counted once in
\* the stratum counts.
C1_AditivosIgualUnaPasada ==
    pc = "fin" =>
        /\ Acum.total_estrato = EnteroPasada.conteo_estrato
        /\ final.conteo_estrato = EnteroPasada.conteo_estrato
        /\ Acum.tramos_total = EnteroPasada.tramos
        /\ final.tramos = EnteroPasada.tramos
        /\ <<Acum.dep_numerador, Acum.dep_denominador>> = EnteroPasada.dependencia
        /\ Len(Acum.viajes_total) = Len(EnteroPasada.viajes)
        /\ ComoMapa(Acum.viajes_total)
             = {<<<<v[1], v[2]>>, v[3]>> : v \in ComoMapa(EnteroPasada.viajes)}
        /\ SumaValores(final.conteo_estrato) = Len(dataset)
        /\ \A k \in DOMAIN final.conteo_estrato :
              final.conteo_estrato[k] = Filas(LAMBDA r : estrato(r) = k)

C1_Testigo ==
    /\ pc = "fin"
    /\ Len(resultados) >= 2
    /\ \E i \in DOMAIN dataset : SinEdad(dataset[i])
    /\ \E k \in DOMAIN resultados[1].tramos : k \in DOMAIN resultados[2].tramos
    /\ \E i \in DOMAIN resultados[1].viajes :
          \E j \in DOMAIN resultados[2].viajes :
              /\ resultados[1].viajes[i][1] = resultados[2].viajes[j][1]
              /\ resultados[1].viajes[i][2] = resultados[2].viajes[j][2]

\* C2: the final pyramid count of every (quinquennial group, gender) key that
\* appears in some chunk's pyramid is the sum of that key's counts over the
\* chunks that contain it.
C2_PiramideSumaSobreUnion ==
    pc = "fin" =>
        \A i \in DOMAIN resultados : \A k \in DOMAIN resultados[i].piramide :
            /\ k \in DOMAIN final.piramide_edades
            /\ final.piramide_edades[k] = <<SumaParciales(LaPiramide, k)>>

\* C3: every (species, gender) group with a non-null age has exactly one entry
\* in the final age statistics, and its mean is the sum of the group's ages over
\* all chunks divided by their number.
C3_MediaGlobal ==
    pc = "fin" =>
        \A g \in {<<dataset[i].ESPECIE, dataset[i].GENERO>> : i \in DOMAIN dataset} :
            EdadesGrupo(dataset, g) # <<>> =>
                LET entradas ==
                        {j \in DOMAIN final.edad_estadisticas :
                            <<final.edad_estadisticas[j].ESPECIE,
                              final.edad_estadisticas[j].GENERO>> = g}
                IN /\ Cardinality(entradas) = 1
                   /\ \A j \in entradas :
                         final.edad_estadisticas[j].mean
                           = Frac(SumaSeq(EdadesGrupo(dataset, g)),
                                  Len(EdadesGrupo(dataset, g)))

\* C4: the median reported for a (species, gender) group is the median of all
\* of the group's non-null ages across every chunk.
C4_MedianaGlobal ==
    pc = "fin" =>
        \A j \in DOMAIN final.edad_estadisticas :
            LET e == final.edad_estadisticas[j]
                todas == SortSeq(EdadesGrupo(dataset, <<e.ESPECIE, e.GENERO>>),
                                 LAMBDA a, b : a < b)
                n == Len(todas)
            IN IF n % 2 = 1 THEN e.median = <<todas[(n + 1) \div 2], 1>>
               ELSE e.median = Frac(todas[n \div 2] + todas[n \div 2 + 1], 2)

\* C5: the top travel-flow list is the same sequence for every partition of
\* the dataset into chunks: it equals the list obtained from the dataset as one
\* chunk.
C5_TopViajesIgualEnTodaParticion ==
    pc = "fin" =>
        final.top_viajes = top_10k(SumarViajes(<<>>, viajes(dataset)))

\* the three counts of the dependency index, over the whole dataset
Bajo15 == Filas(LAMBDA r : ~SinEdad(r) /\ edad(r)[1] < 15)
Sobre64 == Filas(LAMBDA r : ~SinEdad(r) /\ edad(r)[1] > 64)
De15a64 == Filas(LAMBDA r : ~SinEdad(r) /\ edad(r)[1] >= 15 /\ edad(r)[1] <= 64)

\* C6 as stated: the final dependency index equals exactly (rows with age < 15
\* + rows with age > 64) / (rows with 15 <= age <= 64), and is null when the
\* working-age count is 0.
C6_IndiceExacto ==
    pc = "fin" =>
        IF De15a64 = 0 THEN final.indice_dependencia = NaN
        ELSE /\ final.indice_dependencia # NaN
             /\ final.indice_dependencia[1] * De15a64 = 1000 * (Bajo15 + Sobre64)

\* C6, amended: the final dependency index is that quotient rounded to 3
\* decimals (it is within 0.0005 of the quotient), age 64 counting as working
\* age and rows without age in neither term, and it is null when the
\* working-age count is 0.
C6_IndiceRedondeado ==
    pc = "fin" =>
        IF De15a64 = 0 THEN final.indice_dependencia = NaN
        ELSE /\ final.indice_dependencia # NaN
             /\ 2 * Abs(final.indice_dependencia[1] * De15a64
                        - 1000 * (Bajo15 + Sobre64)) <= De15a64

C6_Testigo ==
    /\ pc = "fin"
    /\ Len(resultados) >= 2
    /\ \E i \in DOMAIN dataset : EdadEs(dataset[i], 64)
    /\ \E i \in DOMAIN dataset : SinEdad(dataset[i])
    /\ De15a64 > 0
    /\ (1000 * (Bajo15 + Sobre64)) % De15a64 # 0

\* the final stratum percentages, in hundredths, and their sum
SumaPorcentajes == SumaValores(final.porcentaje_estrato)
NumEstratos == Cardinality({estrato(dataset[i]) : i \in DOMAIN dataset})
CadaPorcentajeRedondeado ==
    /\ DOMAIN final.porcentaje_estrato = {estrato(dataset[i]) : i \in DOMAIN dataset}
    /\ \A k \in DOMAIN final.porcentaje_estrato :
          2 * Abs(final.porcentaje_estrato[k] * Len(dataset)
                  - 10000 * Filas(LAMBDA r : estrato(r) = k)) <= Len(dataset)

\* C7 as stated: each final stratum percentage is count*100/total of the merged
\* counts rounded to 2 decimals, and the percentages sum to within 0.1 of 100
\* for every number of distinct strata.
C7_SumaDentroDeUnDecimo ==
    pc = "fin" => CadaPorcentajeRedondeado /\ Abs(SumaPorcentajes - 10000) <= 10

\* C7, amended: each final stratum percentage is count*100/total of the merged
\* counts rounded to 2 decimals, and the percentages sum to within 0.005 times
\* the number of distinct strata of 100 (so to within 0.1 with at most 20
\* strata).
C7_SumaDentroDelRedondeo ==
    pc = "fin" =>
        /\ CadaPorcentajeRedondeado
        /\ 2 * Abs(SumaPorcentajes - 10000) <= NumEstratos
        /\ NumEstratos <= 20 => Abs(SumaPorcentajes - 10000) <= 10

C7_Testigo ==
    /\ pc = "fin"
    /\ Len(resultados) >= 2
    /\ NumEstratos >= 3
    /\ SumaPorcentajes # 10000

\* C8: combinar_resultados runs only after every dispatched chunk's result has
\* returned, and the list it receives holds exactly one partial aggregate per
\* chunk read from the source, in chunk order, whatever the order in which the
\* workers finish.
C8_BarreraCompleta ==
    pc \in {"combinar", "fin"} =>
        /\ chunks = reader(dataset, chunk_size)
        /\ cola = <<>>
        /\ \A w \in DOMAIN trabajando : trabajando[w] = 0
        /\ Len(llegada) = Len(chunks)
        /\ {llegada[i] : i \in DOMAIN llegada} = DOMAIN chunks
        /\ Len(resultados) = Len(chunks)
        /\ \A i \in DOMAIN chunks : resultados[i] = procesar_chunk(chunks[i])

C8_Testigo ==
    /\ pc = "fin"
    /\ Len(chunks) >= 3
    /\ llegada[1] # 1
    /\ resultados[1] # resultados[2]

\* the bracket and the quinquennial group the claims give to an age
TramoDe(n) ==
    CHOOSE t \in {"0-17", "18-35", "36-60", "61+"} :
        /\ n < 18 => t = "0-17"
        /\ (18 <= n /\ n <= 35) => t = "18-35"
        /\ (36 <= n /\ n <= 60) => t = "36-60"
        /\ n > 60 => t = "61+"
FilasEnTramo(filas, g, t) ==
    Contar(filas, LAMBDA r : /\ <<r.ESPECIE, r.GENERO>> = g
                             /\ ~SinEdad(r)
                             /\ TramoDe(edad(r)[1]) = t)
Desde(d, k) == IF k \in DOMAIN d THEN d[k] ELSE 0

\* C9: clasificar_edad gives "0-17" below 18, "18-35" from 18 to 35, "36-60"
\* from 36 to 60 and "61+" above 60, no bracket to a null age, and a row without
\* age is counted in no bracket count.
C9_Tramos ==
    /\ <<clasificar_edad(<<17>>), clasificar_edad(<<18>>), clasificar_edad(<<35>>),
         clasificar_edad(<<36>>), clasificar_edad(<<60>>), clasificar_edad(<<61>>)>>
         = <<"0-17", "18-35", "18-35", "36-60", "36-60", "61+">>
    /\ clasificar_edad(NaN) = None
    /\ \A i \in DOMAIN dataset :
          ~SinEdad(dataset[i]) =>
              clasificar_edad(edad(dataset[i])) = TramoDe(edad(dataset[i])[1])
    /\ pc = "fin" =>
          /\ \A k \in DOMAIN final.tramos :
                k[3] \in {"0-17", "18-35", "36-60", "61+"} /\ final.tramos[k] > 0
          /\ \A g \in {<<dataset[i].ESPECIE, dataset[i].GENERO>> : i \in DOMAIN dataset} :
                \A t \in {"0-17", "18-35", "36-60", "61+"} :
                    Desde(final.tramos, <<g[1], g[2], t>>)
                      = FilasEnTramo(dataset, g, t)
          /\ SumaValores(final.tramos) = Filas(LAMBDA r : ~SinEdad(r))

C9_Testigo ==
    /\ pc = "fin"
    /\ EdadEs(dataset[1], 60)
    /\ \E i \in DOMAIN dataset : SinEdad(dataset[i])
    /\ final.tramos = (<<"A", "M", "36-60">> :> 1)

\* the quinquennial group of an age, as the claim states it
GrupoDe(n) ==
    IF n >= 90 THEN "90+"
    ELSE ToString(5 * (n \div 5)) \o "-" \o ToString(5 * (n \div 5) + 4)
FilasEnGrupo(filas, q, g) ==
    Contar(filas, LAMBDA r : /\ r.GENERO = g
                             /\ ~SinEdad(r)
                             /\ edad(r)[1] >= 0
                             /\ GrupoDe(edad(r)[1]) = q)

\* C10: clasificar_grupo_5anios gives "90+" from age 90 on, the label
\* "b-(b+4)" with b = floor(age/5)*5 from 0 to 89, and no group to a negative
\* or null age, whose row is counted in no pyramid cell of its chunk.
C10_GruposDe5Anios ==
    /\ clasificar_grupo_5anios(<<89>>) = "85-89"
    /\ clasificar_grupo_5anios(<<90>>) = "90+"
    /\ clasificar_grupo_5anios(NaN) = None
    /\ \A i \in DOMAIN dataset :
          LET e == edad(dataset[i])
          IN clasificar_grupo_5anios(e)
               = IF SinEdad(dataset[i]) \/ e[1] < 0 THEN None ELSE GrupoDe(e[1])
    /\ pc \in {"combinar", "fin"} =>
          \A i \in DOMAIN resultados :
              /\ \A k \in DOMAIN resultados[i].piramide :
                    resultados[i].piramide[k] = FilasEnGrupo(chunks[i], k[1], k[2])
              /\ SumaValores(resultados[i].piramide)
                   = Contar(chunks[i], LAMBDA r : ~SinEdad(r) /\ edad(r)[1] >= 0)

C10_Testigo ==
    /\ pc = "fin"
    /\ EdadEs(dataset[1], 90)
    /\ Len(dataset) >= 2
    /\ SinEdad(dataset[2])
    /\ \E i \in DOMAIN resultados :
          resultados[i].piramide = (<<"90+", "M">> :> 1)

====
